---- MODULE Spec2Model ----
(***************************************************************************)
(* The outbound transport of the AIVory Deno agent: BackendConnection      *)
(* (src/src/config.ts, lines 99-291) together with the WebSocket and timer *)
(* events of the Deno event loop that drive its handlers.                  *)
(*                                                                         *)
(* Every handler runs to completion on the single event loop, so each     *)
(* action below is one whole handler (or one whole public call).           *)
(***************************************************************************)
EXTENDS Integers, Sequences, FiniteSets, TLC

\* ---------------------------------------------------------------- bounds
\* Socket objects with handlers attached that exist at once: the one in
\* this.ws and the stale ones.
MaxSockets == 2
\* setTimeout timers pending at once.
MaxTimers == 2
\* sendException calls made in one behaviour.
MaxSends == 2

\* ------------------------------------------------------ program constants
maxReconnectAttempts == 10
QueueLimit == 1000
BaseDelay == 1000
MaxDelay == 30000
NULL == "null"

\* WebSocket.readyState
ReadyStates == {"CONNECTING", "OPEN", "CLOSING", "CLOSED"}
\* A closed socket fires no more events: a stale socket is one of these.
StaleStates == {"CONNECTING", "OPEN", "CLOSING"}

\* Inbound frames: the two types handleMessage switches on, any other type,
\* and text that JSON.parse rejects.
Inbound == {"registered", "error", "unknown", "malformed"}

VARIABLES
  urlOk,              \* new WebSocket(backendUrl) does not throw
  ws,                 \* this.ws: NULL, or the readyState of the socket it holds
  stale,              \* sockets this.ws no longer holds whose handlers can still
                      \* run: how many there are in each readyState
  authenticated,      \* this.authenticated
  reconnectAttempts,  \* this.reconnectAttempts
  messageQueue,       \* this.messageQueue (as runs, see Unfold)
  reconnectTimer,     \* this.reconnectTimer: NULL, or the timer it names is
                      \* "PENDING" or has "FIRED"
  lostTimers,         \* pending timers whose id this.reconnectTimer no longer holds
  wire,               \* exception messages transmitted on this.ws, in order
                      \* (as runs)
  heldReg,            \* a register message was transmitted on the socket in this.ws
  heldAck,            \* a 'registered' frame was received on the socket in this.ws
  nextId,             \* messages are numbered in the order they are passed to send
  sendsLeft,          \* sendException calls still to be made
  delay,              \* delay the last handler passed to setTimeout (0: none)
  threw,              \* the last handler ended with an uncaught exception
  torn,               \* disconnect() returned and connect() was not called since
  gaveUp,             \* a closure found the attempts exhausted, and since then
                      \* connect() was not called and no socket opened
  op                  \* the handler or call that ran last

\* The module state of mod.ts, the ExceptionHandler and the listeners it
\* registered on globalThis.
VARIABLES
  initialized,        \* mod.ts: initialized
  config,             \* mod.ts: config, null or the AgentConfig (its apiKey being
                      \* non-empty, samplingRate in hundredths, customContext, user)
  exceptionHandler,   \* mod.ts: exceptionHandler, null or the ExceptionHandler
                      \* (its installed flag, and whether uninstall() has cleared
                      \* it before); connection is set and cleared with it
  listeners,          \* listener pairs on globalThis that call exceptionHandler
  strays,             \* listener pairs on globalThis that call a handler mod.ts
                      \* has let go of: the samplingRate of each one's config
  installCalls,       \* install() calls on exceptionHandler since it was created
                      \* or last uninstalled
  handed,             \* reports the last call or event passed to
                      \* connection.sendException
  strayed,            \* reports the last event passed to a connection mod.ts has
                      \* let go of
  context             \* context of the report the last call or event built for
                      \* connection ({}: it built none)

agentVars == <<initialized, config, exceptionHandler, listeners, strays, installCalls,
               handed, strayed, context>>

\* One run of the value serializer (ExceptionHandler.captureVariables on a
\* single local variable) and what it is given.
VARIABLES
  heap,               \* the objects the captured value can reach: for each one its
                      \* kind and, for an array or a plain object, its elements or
                      \* the values of its keys, in order
  root,               \* the value of the variable: a primitive or an object of heap
  maxCaptureDepth,    \* config.maxCaptureDepth
  maxCollectionSize,  \* config.maxCollectionSize
  captured            \* what captureVariables returned for the variable, or that
                      \* it has not run, or that it raised

serializerVars == <<heap, root, maxCaptureDepth, maxCollectionSize, captured>>

\* One run of the stack parser (ExceptionHandler.parseStackTrace).
VARIABLES
  stack,              \* error.stack, as its lines (what split('\n') returns), a
                      \* line being its pieces of text in order
  frames              \* what parseStackTrace returned, or that it has not run

parserVars == <<stack, frames>>

\* Two runs of the fingerprint (ExceptionHandler.calculateFingerprint).
VARIABLES
  errors,             \* the two errors, each with its name, its message and the
                      \* frames of its stack
  fingerprints        \* what calculateFingerprint returned for each, or that it
                      \* has not run

fingerprintVars == <<errors, fingerprints>>

\* The functions of the capture pipeline that are run on their own.
pureVars == <<serializerVars, parserVars, fingerprintVars>>

\* What the transport's own handlers and calls leave alone.
aside == <<agentVars, pureVars>>

vars == <<urlOk, ws, stale, authenticated, reconnectAttempts, messageQueue,
          reconnectTimer, lostTimers, wire, heldReg, heldAck, nextId, sendsLeft,
          delay, threw, torn, gaveUp, op>>

\* ---------------------------------------------------------------- helpers
Min(a, b) == IF a < b THEN a ELSE b

RECURSIVE Pow2(_)
Pow2(n) == IF n = 0 THEN 1 ELSE 2 * Pow2(n - 1)

\* Messages are numbered 1, 2, ... in the order they are passed to send(). A
\* sequence of messages is held as its maximal runs of consecutive numbers,
\* <<[lo |-> 1, hi |-> 999]>> for 1, 2, ..., 999: Unfold gives the sequence
\* itself, and two sequences are equal exactly when their runs are.
RECURSIVE Unfold(_)
Unfold(runs) ==
  IF runs = <<>> THEN <<>>
  ELSE [i \in 1..(runs[1].hi - runs[1].lo + 1) |-> runs[1].lo + i - 1] \o Unfold(Tail(runs))

\* array.length
RECURSIVE Count(_)
Count(runs) ==
  IF runs = <<>> THEN 0 ELSE runs[1].hi - runs[1].lo + 1 + Count(Tail(runs))

\* The runs of first followed by second.
Join(first, second) ==
  IF first = <<>> THEN second
  ELSE IF second = <<>> THEN first
  ELSE IF first[Len(first)].hi + 1 = second[1].lo
  THEN SubSeq(first, 1, Len(first) - 1)
         \o <<[lo |-> first[Len(first)].lo, hi |-> second[1].hi]>> \o Tail(second)
  ELSE first \o second

\* array.push(m)
Push(runs, m) == Join(runs, <<[lo |-> m, hi |-> m]>>)

\* The messages 1..n, as runs.
FirstMessages(n) == IF n = 0 THEN <<>> ELSE <<[lo |-> 1, hi |-> n]>>

\* Mutant: a socket that is still connecting counts as open.
IsOpenOrConnecting(w) == w \in {"OPEN", "CONNECTING"}

\* ws?.readyState === WebSocket.OPEN
IsOpen(w) == w = "OPEN"

NoStale == [st \in StaleStates |-> 0]
StaleCount(b) == b["CONNECTING"] + b["OPEN"] + b["CLOSING"]
AddStale(b, st) == [b EXCEPT ![st] = @ + 1]
DropStale(b, st) == [b EXCEPT ![st] = @ - 1]

\* Sockets with handlers attached that can still fire an event.
LiveSockets(w, b) == (IF w \in StaleStates THEN 1 ELSE 0) + StaleCount(b)

\* Pending timers.
Pending(rt, lost) == (IF rt = "PENDING" THEN 1 ELSE 0) + lost

\* ------------------------------------------------------- scheduleReconnect
\* Mutant: the delay is not capped.
ReconnectDelayUncapped(n) == BaseDelay * Pow2(n)

\* Math.min(1000 * Math.pow(2, this.reconnectAttempts), 30000)
ReconnectDelay(n) == Min(BaseDelay * Pow2(n), MaxDelay)

\* Mutant: > for >=.
ExhaustedOffByOne(att) == att > maxReconnectAttempts

\* reconnectAttempts >= maxReconnectAttempts: return without scheduling
Exhausted(att) == att >= maxReconnectAttempts

\* The fields scheduleReconnect() leaves behind, from those it finds, and the
\* delay it passed to setTimeout (dl). Overwriting this.reconnectTimer does
\* not cancel the timer it named.
scheduleReconnect(att, rt, lost) ==
  IF Exhausted(att)
  THEN [att |-> att, rt |-> rt, lost |-> lost, dl |-> 0]
  ELSE [att  |-> att + 1,
        rt   |-> "PENDING",
        lost |-> IF rt = "PENDING" THEN lost + 1 ELSE lost,
        dl   |-> ReconnectDelay(att)]

\* The model holds at most MaxTimers pending timers.
CanSchedule(att, rt, lost) == Exhausted(att) \/ Pending(rt, lost) < MaxTimers

\* ------------------------------------------------------------- send / flush
\* Mutant: <= for <.
EnqueueOffByOne(q, m) == IF Count(q) <= QueueLimit THEN Push(q, m) ELSE q

\* Mutant: a full queue evicts its oldest message to take the new one.
EnqueueEvictOldest(q, m) ==
  IF Count(q) < QueueLimit THEN Push(q, m)
  ELSE Push(IF q[1].lo = q[1].hi THEN Tail(q) ELSE [q EXCEPT ![1].lo = @ + 1], m)

\* messageQueue.push(message) when messageQueue.length < 1000
Enqueue(q, m) == IF Count(q) < QueueLimit THEN Push(q, m) ELSE q

\* Mutant: the authenticated flag is not consulted.
CanTransmitUnauthenticated(w, auth) == IsOpen(w)

\* send(): transmit at once when open and authenticated
CanTransmit(w, auth) == IsOpen(w) /\ auth

\* Mutant: the newest message is taken first (pop() for the first shift()).
FlushWireNewestFirst(w, q, out) ==
  IF IsOpen(w) /\ q # <<>>
  THEN LET last == q[Len(q)]
           rest == IF last.lo = last.hi THEN SubSeq(q, 1, Len(q) - 1)
                   ELSE [q EXCEPT ![Len(q)].hi = @ - 1]
       IN Join(out \o <<[lo |-> last.hi, hi |-> last.hi]>>, rest)
  ELSE out

\* flushQueue(): shift and transmit while the queue is non-empty and the
\* held socket is open. Transmitting does not change readyState, so the loop
\* either does not start or empties the queue.
FlushWire(w, q, out) == IF IsOpen(w) THEN Join(out, q) ELSE out
FlushQueue(w, q) == IF IsOpen(w) THEN <<>> ELSE q

\* ------------------------------------------------------------------- Init
\* The transport as constructed, after its first `queued` messages were sent.
Constructed(queued) ==
  /\ urlOk \in BOOLEAN
  /\ ws = NULL
  /\ stale = NoStale
  /\ authenticated = FALSE
  /\ reconnectAttempts = 0
  /\ messageQueue = FirstMessages(queued)
  /\ reconnectTimer = NULL
  /\ lostTimers = 0
  /\ wire = <<>>
  /\ heldReg = FALSE
  /\ heldAck = FALSE
  /\ nextId = queued
  /\ sendsLeft = MaxSends
  /\ delay = 0
  /\ threw = FALSE
  /\ torn = FALSE
  /\ gaveUp = FALSE
  /\ op = "new"

\* null, where the variable otherwise holds an object.
NullObject == [null |-> TRUE]
\* {}
NoContext == [k \in {} |-> "none"]

\* captureVariables has not run.
NotRun == [pending |-> TRUE]
NoHeap == [o \in {} |-> NotRun]

\* No local variable is being captured.
NotCapturing ==
  /\ heap = NoHeap
  /\ root = "undefined"
  /\ maxCaptureDepth = 0
  /\ maxCollectionSize = 0
  /\ captured = NotRun

\* No stack is being parsed.
NotParsing ==
  /\ stack = <<>>
  /\ frames = NotRun

\* No fingerprint is being calculated.
NotFingerprinting ==
  /\ errors = <<>>
  /\ fingerprints = NotRun

\* A rate as shouldSample reads it: 1 and above always passes, 0 and below
\* never does.
Sampled(rate) == IF rate >= 100 THEN 100 ELSE IF rate <= 0 THEN 0 ELSE rate

\* The listeners globalThis keeps with n more of a handler whose config
\* samples at rate, listed by rate: an event calls every one of them, each
\* drawing for itself, so their order carries nothing, and of its config a
\* listener left behind reads the rate alone, in shouldSample.
Left(s, n, rate) ==
  SelectSeq(s, LAMBDA r : r <= Sampled(rate)) \o [i \in 1..n |-> Sampled(rate)]
    \o SelectSeq(s, LAMBDA r : r > Sampled(rate))

\* mod.ts as loaded: init() has not been called.
NotInitialized ==
  /\ initialized = FALSE
  /\ config = NullObject
  /\ exceptionHandler = NullObject
  /\ listeners = 0
  /\ strays = <<>>
  /\ installCalls = 0
  /\ handed = 0
  /\ strayed = 0
  /\ context = NoContext

Init == Constructed(0) /\ NotInitialized /\ NotCapturing /\ NotParsing /\ NotFingerprinting

\* The transport after QueueLimit - 1 reports were captured before the first
\* connect(): send() queued each of them.
InitNearFull ==
  Constructed(QueueLimit - 1) /\ NotInitialized /\ NotCapturing /\ NotParsing
    /\ NotFingerprinting

\* ---------------------------------------------------------------- connect
\* The socket connect() leaves behind when it replaces this.ws: a socket that
\* is still connecting keeps its handlers.
Orphan(w, b) == IF w \in StaleStates THEN AddStale(b, w) ELSE b

\* The body of connect(), run with rt and lost the timers as it finds them.
connect(rt, lost) ==
  IF IsOpen(ws)
  THEN /\ reconnectTimer' = rt
       /\ lostTimers' = lost
       /\ delay' = 0
       /\ UNCHANGED <<ws, stale, reconnectAttempts, heldReg, heldAck>>
  ELSE IF urlOk
  THEN /\ LiveSockets(ws, stale) < MaxSockets
       /\ stale' = Orphan(ws, stale)
       /\ ws' = "CONNECTING"
       /\ heldReg' = FALSE
       /\ heldAck' = FALSE
       /\ reconnectTimer' = rt
       /\ lostTimers' = lost
       /\ delay' = 0
       /\ UNCHANGED reconnectAttempts
  ELSE LET r == scheduleReconnect(reconnectAttempts, rt, lost)
       IN /\ CanSchedule(reconnectAttempts, rt, lost)
          /\ reconnectAttempts' = r.att
          /\ reconnectTimer' = r.rt
          /\ lostTimers' = r.lost
          /\ delay' = r.dl
          /\ UNCHANGED <<ws, stale, heldReg, heldAck>>

\* connect() called by the application (init, or directly).
Connect ==
  /\ connect(reconnectTimer, lostTimers)
  /\ torn' = FALSE
  /\ gaveUp' = FALSE
  /\ threw' = FALSE
  /\ op' = "connect"
  /\ UNCHANGED <<urlOk, authenticated, messageQueue, wire, nextId, sendsLeft>>
  /\ UNCHANGED aside

\* The setTimeout callback of scheduleReconnect, this.connect(): of the timer
\* this.reconnectTimer names (held), or of one it no longer names.
TimerFire(held) ==
  /\ IF held THEN reconnectTimer = "PENDING" ELSE lostTimers > 0
  /\ IF held
     THEN connect("FIRED", lostTimers)
     ELSE connect(reconnectTimer, lostTimers - 1)
  /\ threw' = FALSE
  /\ op' = "timer"
  /\ UNCHANGED <<urlOk, authenticated, messageQueue, wire, nextId, sendsLeft, torn,
                 gaveUp>>
  /\ UNCHANGED aside

\* ------------------------------------------------------------- disconnect
\* ws.close(1000, 'Agent shutdown'); this.ws = null: an open or connecting
\* socket starts closing and keeps its handlers.
CloseCall(w, b) == IF w \in {"CONNECTING", "OPEN"} THEN AddStale(b, "CLOSING") ELSE b

\* Mutant: disconnect() closes the socket but keeps the reference to it.
disconnectKeepsReference ==
  /\ reconnectTimer' = NULL
  /\ ws' = IF ws \in {"CONNECTING", "OPEN"} THEN "CLOSING" ELSE ws
  /\ authenticated' = FALSE
  /\ heldReg' = FALSE
  /\ heldAck' = FALSE
  /\ torn' = TRUE
  /\ delay' = 0
  /\ threw' = FALSE
  /\ op' = "disconnect"
  /\ UNCHANGED <<urlOk, stale, reconnectAttempts, lostTimers, messageQueue, wire,
                 nextId, sendsLeft, gaveUp>>

\* Mutant: disconnect() also empties the queue.
disconnectDropsQueue ==
  /\ reconnectTimer' = NULL
  /\ stale' = CloseCall(ws, stale)
  /\ ws' = NULL
  /\ authenticated' = FALSE
  /\ heldReg' = FALSE
  /\ heldAck' = FALSE
  /\ torn' = TRUE
  /\ delay' = 0
  /\ threw' = FALSE
  /\ op' = "disconnect"
  /\ messageQueue' = <<>>
  /\ UNCHANGED <<urlOk, reconnectAttempts, lostTimers, wire, nextId, sendsLeft,
                 gaveUp>>

\* The body of disconnect().
disconnect ==
  /\ reconnectTimer' = NULL
  /\ stale' = CloseCall(ws, stale)
  /\ ws' = NULL
  /\ authenticated' = FALSE
  /\ heldReg' = FALSE
  /\ heldAck' = FALSE
  /\ torn' = TRUE
  /\ delay' = 0
  /\ threw' = FALSE
  /\ op' = "disconnect"
  /\ UNCHANGED <<urlOk, reconnectAttempts, lostTimers, messageQueue, wire, nextId,
                 sendsLeft, gaveUp>>

\* disconnect() called by the application.
Disconnect == disconnect /\ UNCHANGED aside

\* -------------------------------------------------- sendException / send
Send ==
  /\ sendsLeft > 0
  /\ nextId' = nextId + 1
  /\ IF CanTransmit(ws, authenticated)
     THEN /\ wire' = Push(wire, nextId + 1)
          /\ UNCHANGED messageQueue
     ELSE /\ messageQueue' = Enqueue(messageQueue, nextId + 1)
          /\ UNCHANGED wire
  /\ sendsLeft' = sendsLeft - 1
  /\ delay' = 0
  /\ threw' = FALSE
  /\ UNCHANGED <<urlOk, ws, stale, authenticated, reconnectAttempts,
                 reconnectTimer, lostTimers, heldReg, heldAck, torn, gaveUp>>
  /\ op' = "send"
  /\ UNCHANGED aside

\* ------------------------------------------------------ ws.onopen
\* this.ws?.send(authMessage) in authenticate(): "sent" on an open socket,
\* "throws" (InvalidStateError) on a connecting one, "dropped" on a closing or
\* closed one, "none" when this.ws is null.
RegisterOutcome(w) ==
  IF w = NULL THEN "none"
  ELSE IF w = "OPEN" THEN "sent"
  ELSE IF w = "CONNECTING" THEN "throws"
  ELSE "dropped"

\* The body of ws.onopen, with w this.ws as the handler finds it.
onopen(w) ==
  /\ reconnectAttempts' = 0
  /\ heldReg' = (heldReg \/ RegisterOutcome(w) = "sent")
  /\ threw' = (RegisterOutcome(w) = "throws")
  /\ delay' = 0
  /\ gaveUp' = FALSE
  /\ op' = "open"
  /\ UNCHANGED <<urlOk, authenticated, messageQueue, reconnectTimer, lostTimers,
                 wire, heldAck, nextId, sendsLeft, torn>>
  /\ UNCHANGED aside

\* The open event of the socket in this.ws (held) or of a stale one.
SocketOpen(held) ==
  IF held
  THEN /\ ws = "CONNECTING"
       /\ ws' = "OPEN"
       /\ UNCHANGED stale
       /\ onopen("OPEN")
  ELSE /\ stale["CONNECTING"] > 0
       /\ stale' = AddStale(DropStale(stale, "CONNECTING"), "OPEN")
       /\ UNCHANGED ws
       /\ onopen(ws)

\* ------------------------------------------------------ ws.onmessage
\* handleMessage(data), for a frame received on the held socket or a stale one.
\* Mutant: the JSON.parse failure is not caught.
DispatchUncaught(kind) ==
  IF kind = "malformed" THEN "raised"
  ELSE IF kind = "registered" THEN "registered"
  ELSE IF kind = "error" THEN "logged"
  ELSE "ignored"

\* JSON.parse and the switch on message.type, inside try/catch: a frame that
\* does not parse is caught, 'error' is logged, any other type falls through.
Dispatch(kind) ==
  IF kind = "malformed" THEN "caught"
  ELSE IF kind = "registered" THEN "registered"
  ELSE IF kind = "error" THEN "logged"
  ELSE "ignored"

handleMessage(held, kind) ==
  /\ IF Dispatch(kind) = "registered"
     THEN /\ authenticated' = TRUE
          /\ heldAck' = (heldAck \/ held)
          /\ wire' = FlushWire(ws, messageQueue, wire)
          /\ messageQueue' = FlushQueue(ws, messageQueue)
     ELSE UNCHANGED <<authenticated, heldAck, wire, messageQueue>>
  /\ delay' = 0
  /\ threw' = (Dispatch(kind) = "raised")
  /\ op' = "message"
  /\ UNCHANGED <<urlOk, ws, stale, reconnectAttempts, reconnectTimer, lostTimers,
                 heldReg, nextId, sendsLeft, torn, gaveUp>>
  /\ UNCHANGED aside

\* A message event is dispatched while the socket is open, and by the Deno
\* client also while it is closing (until the close event).
Delivers(held, st) ==
  /\ st \in {"OPEN", "CLOSING"}
  /\ IF held THEN ws = st ELSE stale[st] > 0

SocketMessage(held, st, kind) ==
  /\ Delivers(held, st)
  /\ handleMessage(held, kind)

\* ------------------------------------------------------ ws.onclose / ws.onerror
\* Mutant: ws.onclose leaves this.authenticated alone.
oncloseKeepsFlag ==
  LET r == scheduleReconnect(reconnectAttempts, reconnectTimer, lostTimers)
  IN /\ CanSchedule(reconnectAttempts, reconnectTimer, lostTimers)
     /\ reconnectAttempts' = r.att
     /\ reconnectTimer' = r.rt
     /\ lostTimers' = r.lost
     /\ delay' = r.dl
     /\ gaveUp' = (gaveUp \/ Exhausted(reconnectAttempts))
     /\ threw' = FALSE
     /\ UNCHANGED <<urlOk, authenticated, messageQueue, wire, heldReg, heldAck,
                    nextId, sendsLeft, torn>>

\* The body of ws.onclose.
onclose ==
  LET r == scheduleReconnect(reconnectAttempts, reconnectTimer, lostTimers)
  IN /\ CanSchedule(reconnectAttempts, reconnectTimer, lostTimers)
     /\ authenticated' = FALSE
     /\ reconnectAttempts' = r.att
     /\ reconnectTimer' = r.rt
     /\ lostTimers' = r.lost
     /\ delay' = r.dl
     /\ gaveUp' = (gaveUp \/ Exhausted(reconnectAttempts))
     /\ threw' = FALSE
     /\ UNCHANGED <<urlOk, messageQueue, wire, heldReg, heldAck, nextId,
                    sendsLeft, torn>>

\* The body of ws.onerror: a diagnostic when debug is set, no state change.
onerror == UNCHANGED urlOk

\* The socket (held, or a stale one in readyState st) becomes CLOSED.
Closes(held, st) ==
  IF held
  THEN /\ ws = st
       /\ ws' = "CLOSED"
       /\ UNCHANGED stale
  ELSE /\ stale[st] > 0
       /\ stale' = DropStale(stale, st)
       /\ UNCHANGED ws

\* The connection closes cleanly: the close event alone.
SocketClose(held, st) ==
  /\ st \in {"OPEN", "CLOSING"}
  /\ Closes(held, st)
  /\ onclose
  /\ op' = "close"
  /\ UNCHANGED aside

\* The connection fails (refused, reset, protocol error): the runtime
\* dispatches the error event and then the close event, in one task.
SocketFail(held, st) ==
  /\ st \in StaleStates
  /\ Closes(held, st)
  /\ onerror
  /\ onclose
  /\ op' = "error"
  /\ UNCHANGED aside

\* ------------------------------------------------------------------- Next
Next ==
  \/ Connect
  \/ Disconnect
  \/ Send
  \/ \E held \in BOOLEAN : TimerFire(held)
  \/ \E held \in BOOLEAN : SocketOpen(held)
  \/ \E held \in BOOLEAN, st \in StaleStates, kind \in Inbound :
       SocketMessage(held, st, kind)
  \/ \E held \in BOOLEAN, st \in StaleStates : SocketClose(held, st)
  \/ \E held \in BOOLEAN, st \in StaleStates : SocketFail(held, st)

Spec == Init /\ [][Next]_vars
SpecNearFull == InitNearFull /\ [][Next]_vars

TypeOK ==
  /\ urlOk \in BOOLEAN
  /\ ws \in ReadyStates \cup {NULL}
  /\ ws # "CLOSING"
  /\ stale \in [StaleStates -> 0..MaxSockets]
  /\ LiveSockets(ws, stale) <= MaxSockets
  /\ authenticated \in BOOLEAN
  /\ reconnectAttempts \in 0..maxReconnectAttempts
  /\ reconnectTimer \in {NULL, "PENDING", "FIRED"}
  /\ lostTimers \in 0..MaxTimers
  /\ Pending(reconnectTimer, lostTimers) <= MaxTimers
  /\ heldReg \in BOOLEAN
  /\ heldAck \in BOOLEAN
  /\ sendsLeft \in 0..MaxSends
  /\ threw \in BOOLEAN
  /\ torn \in BOOLEAN
  /\ gaveUp \in BOOLEAN
  /\ op \in {"new", "connect", "disconnect", "send", "timer", "open", "message",
            "close", "error", "init", "shutdown", "setContext", "setUser",
            "capture", "install", "uninstall", "event"}

\* ============================================================ the agent
\* mod.ts (init, captureException, setContext, setUser, shutdown), the
\* ExceptionHandler's capture paths and AgentConfig's sampling and context.

\* ----------------------------------------------------------------- bounds
\* Listener pairs registered on globalThis at once.
MaxListeners == 2
\* install() calls counted on one handler.
MaxInstalls == 3

\* samplingRate, in hundredths: below 0, 0, between, 1 and above 1.
Rates == {-50, 0, 50, 100, 150}
\* Math.random(), in hundredths: a number in [0, 1).
Draws == {0, 50}

\* Keys of a context object; the values tell the source apart.
Keys == {"id", "user"}
ContextsOf(v) == UNION {[S -> {v}] : S \in SUBSET Keys}
\* What setUser stores: {} or an object with an id.
Users == {NoContext, [k \in {"id"} |-> "user"]}
\* An object of Users as the value of a key.
Nested(u) == IF DOMAIN u = {} THEN "{}" ELSE "{id}"
Origins == {"error", "unhandledrejection"}

\* -------------------------------------------------------------- AgentConfig
\* Mutant: a rate of 0 is passed on to the random draw.
shouldSampleDrawsAtZero(rate, draw) ==
  IF rate >= 100 THEN TRUE
  ELSE draw <= rate

\* shouldSample(), with draw the value Math.random() returns.
shouldSample(rate, draw) ==
  IF rate >= 100 THEN TRUE
  ELSE IF rate <= 0 THEN FALSE
  ELSE draw < rate

\* new AgentConfig(options)
AgentConfig(key, rate) ==
  [apiKey |-> key, samplingRate |-> rate, customContext |-> NoContext, user |-> NoContext]

\* { ...base, ...over }
Spread(base, over) ==
  [k \in DOMAIN base \cup DOMAIN over |-> IF k \in DOMAIN over THEN over[k] ELSE base[k]]

\* Mutant: the call-site context is spread first, the ambient one over it.
createCaptureAmbientLast(cfg, ctx) ==
  Spread(Spread(ctx, cfg.customContext), [k \in {"user"} |-> Nested(cfg.user)])

\* The context createCapture builds:
\* { ...getCustomContext(), ...context, user: getUser() }
createCapture(cfg, ctx) ==
  Spread(Spread(cfg.customContext, ctx), [k \in {"user"} |-> Nested(cfg.user)])

\* --------------------------------------------------- connection.sendException
RECURSIVE PushAll(_, _, _)
PushAll(runs, m, k) == IF k = 0 THEN runs ELSE PushAll(Push(runs, m), m + 1, k - 1)

RECURSIVE EnqueueAll(_, _, _)
EnqueueAll(q, m, k) == IF k = 0 THEN q ELSE EnqueueAll(Enqueue(q, m), m + 1, k - 1)

\* k calls of connection.sendException in a row, within one call or event.
sendException(k) ==
  /\ sendsLeft >= k
  /\ nextId' = nextId + k
  /\ sendsLeft' = sendsLeft - k
  /\ IF CanTransmit(ws, authenticated)
     THEN /\ wire' = PushAll(wire, nextId + 1, k)
          /\ UNCHANGED messageQueue
     ELSE /\ messageQueue' = EnqueueAll(messageQueue, nextId + 1, k)
          /\ UNCHANGED wire
  /\ handed' = k

\* What a call leaves of the connection when it does not reach it.
transportVars == <<urlOk, ws, stale, authenticated, reconnectAttempts, messageQueue,
                   reconnectTimer, lostTimers, wire, heldReg, heldAck, nextId,
                   sendsLeft, delay, threw, torn, gaveUp>>

allVars == <<vars, agentVars, pureVars>>

\* ------------------------------------------------------------------ mod.ts
\* A call that returns before it reaches the connection or the handler.
Returns(name) ==
  /\ op' = name
  /\ handed' = 0
  /\ strayed' = 0
  /\ UNCHANGED <<transportVars, initialized, config, exceptionHandler, listeners,
                 strays, installCalls>>
  /\ context' = NoContext

\* new BackendConnection(config) followed by connection.connect(): the fields
\* of the new object, ws being null when connect() is entered. The sockets and
\* timers of a connection mod.ts has let go of act on that object, not on
\* this one.
NewConnection ==
  LET r == scheduleReconnect(0, NULL, 0)
  IN /\ ws' = IF urlOk THEN "CONNECTING" ELSE NULL
     /\ reconnectAttempts' = IF urlOk THEN 0 ELSE r.att
     /\ reconnectTimer' = IF urlOk THEN NULL ELSE r.rt
     /\ delay' = IF urlOk THEN 0 ELSE r.dl
     /\ lostTimers' = 0
     /\ stale' = NoStale
     /\ authenticated' = FALSE
     /\ messageQueue' = <<>>
     /\ wire' = <<>>
     /\ heldReg' = FALSE
     /\ heldAck' = FALSE
     /\ torn' = FALSE
     /\ gaveUp' = FALSE
     /\ threw' = FALSE
     /\ UNCHANGED <<urlOk, nextId, sendsLeft>>

\* Mutant: init() does not check the API key.
HasKeyUnchecked(cfg) == TRUE

\* config.apiKey is a non-empty string.
HasKey(cfg) == cfg.apiKey

\* init(options): key is options giving a non-empty API key.
InitCall(key, rate) ==
  /\ UNCHANGED pureVars
  /\ IF initialized THEN Returns("init")
     ELSE IF ~HasKey(AgentConfig(key, rate))
     THEN /\ config' = AgentConfig(key, rate)
          /\ op' = "init"
          /\ handed' = 0
          /\ strayed' = 0
          /\ context' = NoContext
          /\ UNCHANGED <<transportVars, initialized, exceptionHandler, listeners,
                         strays, installCalls>>
     ELSE /\ listeners + Len(strays) < MaxListeners
          /\ config' = AgentConfig(key, rate)
          /\ NewConnection
          /\ exceptionHandler' = [installed |-> TRUE, cleared |-> FALSE]
          /\ listeners' = 1
          /\ installCalls' = 1
          /\ initialized' = TRUE
          /\ op' = "init"
          /\ handed' = 0
          /\ strayed' = 0
          /\ context' = NoContext
          /\ UNCHANGED strays

\* shutdown(): uninstall() clears the flag and leaves the listeners on
\* globalThis; they keep calling the handler that mod.ts lets go of.
Shutdown ==
  /\ UNCHANGED pureVars
  /\ IF ~initialized THEN Returns("shutdown")
     ELSE /\ disconnect
          /\ config' = NullObject
          /\ exceptionHandler' = NullObject
          /\ initialized' = FALSE
          /\ strays' = Left(strays, listeners, config.samplingRate)
          /\ listeners' = 0
          /\ installCalls' = 0
          /\ handed' = 0
          /\ strayed' = 0
          /\ context' = NoContext

\* setContext(context)
SetContext(c) ==
  /\ UNCHANGED pureVars
  /\ IF ~initialized \/ config = NullObject THEN Returns("setContext")
     ELSE /\ config' = [config EXCEPT !.customContext = c]
          /\ op' = "setContext"
          /\ handed' = 0
          /\ strayed' = 0
          /\ context' = NoContext
          /\ UNCHANGED <<transportVars, initialized, exceptionHandler, listeners,
                         strays, installCalls>>

\* setUser(user)
SetUser(u) ==
  /\ UNCHANGED pureVars
  /\ IF ~initialized \/ config = NullObject THEN Returns("setUser")
     ELSE /\ config' = [config EXCEPT !.user = u]
          /\ op' = "setUser"
          /\ handed' = 0
          /\ strayed' = 0
          /\ context' = NoContext
          /\ UNCHANGED <<transportVars, initialized, exceptionHandler, listeners,
                         strays, installCalls>>

\* captureException(error, context, localVars) and ExceptionHandler.capture.
CaptureException(ctx, draw) ==
  /\ UNCHANGED pureVars
  /\ IF ~initialized \/ exceptionHandler = NullObject THEN Returns("capture")
     ELSE IF ~shouldSample(config.samplingRate, draw) THEN Returns("capture")
     ELSE /\ context' = createCapture(config, ctx)
          /\ sendException(1)
          /\ strayed' = 0
          /\ delay' = 0
          /\ threw' = FALSE
          /\ op' = "capture"
          /\ UNCHANGED <<urlOk, ws, stale, authenticated, reconnectAttempts,
                         reconnectTimer, lostTimers, heldReg, heldAck, torn, gaveUp>>
          /\ UNCHANGED <<initialized, config, exceptionHandler, listeners, strays,
                         installCalls>>

\* -------------------------------------------------------- ExceptionHandler
\* Mutant: install() does not look at the installed flag.
registersAlways(installed) == 1

\* Listener pairs install() adds: none when this.installed is set.
registers(installed) == IF installed THEN 0 ELSE 1

\* exceptionHandler.install()
Install ==
  /\ UNCHANGED pureVars
  /\ exceptionHandler # NullObject
  /\ listeners + registers(exceptionHandler.installed) + Len(strays) <= MaxListeners
  /\ listeners' = listeners + registers(exceptionHandler.installed)
  /\ exceptionHandler' = [exceptionHandler EXCEPT !.installed = TRUE]
  /\ installCalls' = Min(installCalls + 1, MaxInstalls)
  /\ op' = "install"
  /\ handed' = 0
  /\ strayed' = 0
  /\ context' = NoContext
  /\ UNCHANGED <<transportVars, initialized, config, strays>>

\* exceptionHandler.uninstall(): the listeners stay on globalThis.
Uninstall ==
  /\ UNCHANGED pureVars
  /\ exceptionHandler # NullObject
  /\ exceptionHandler' = [installed |-> FALSE,
                           cleared   |-> exceptionHandler.cleared \/ exceptionHandler.installed]
  /\ installCalls' = 0
  /\ op' = "uninstall"
  /\ handed' = 0
  /\ strayed' = 0
  /\ context' = NoContext
  /\ UNCHANGED <<transportVars, initialized, config, listeners, strays>>

\* How many of the n listeners' handleException calls pass shouldSample, the
\* i-th one with rate rates[i] and the draw draws[from + i].
Passing(n, rates, draws, from) ==
  Cardinality({i \in 1..n : shouldSample(rates[i], draws[from + i])})

\* An 'error' or 'unhandledrejection' event on globalThis: every listener
\* registered for it runs handleException(error, { origin }) on its handler.
UncaughtEvent(origin, draws) ==
  LET k  == Passing(listeners, [i \in 1..listeners |-> config.samplingRate], draws, 0)
      ks == Passing(Len(strays), strays, draws, listeners)
  IN /\ listeners + Len(strays) > 0
     /\ UNCHANGED pureVars
     /\ strayed' = ks
     /\ op' = "event"
     /\ IF k > 0
        THEN /\ context' = createCapture(config, [o \in {"origin"} |-> origin])
             /\ sendException(k)
             /\ delay' = 0
             /\ threw' = FALSE
             /\ UNCHANGED <<urlOk, ws, stale, authenticated, reconnectAttempts,
                            reconnectTimer, lostTimers, heldReg, heldAck, torn, gaveUp>>
        ELSE /\ handed' = 0
             /\ context' = NoContext
             /\ UNCHANGED transportVars
     /\ UNCHANGED <<initialized, config, exceptionHandler, listeners, strays,
                    installCalls>>

\* ------------------------------------------------------------------- Next
\* The agent as the application drives it, with the connection's socket
\* opening and receiving frames.
NextAgent ==
  \/ \E key \in BOOLEAN, rate \in Rates : InitCall(key, rate)
  \/ Shutdown
  \/ \E c \in ContextsOf("ambient") : SetContext(c)
  \/ \E u \in Users : SetUser(u)
  \/ \E ctx \in ContextsOf("call"), draw \in Draws : CaptureException(ctx, draw)
  \/ Install
  \/ Uninstall
  \/ \E origin \in Origins, draws \in [1..(listeners + Len(strays)) -> Draws] :
       UncaughtEvent(origin, draws)
  \/ SocketOpen(TRUE)
  \/ \E kind \in Inbound : SocketMessage(TRUE, "OPEN", kind)

SpecAgent == Init /\ [][NextAgent]_allVars

\* ============================================================ serializer
\* ExceptionHandler.captureValue: the captured form of one local variable.

\* The longest array and the most keys of an object the inputs have.
MaxItems == 2
\* The largest maxCaptureDepth and maxCollectionSize the inputs configure.
MaxDepthChoice == 2
MaxSizeChoice == 2

\* Values that are not objects, by what typeof and the null/undefined tests
\* tell apart; a string is either within maxStringLength or longer.
Primitives == {"null", "undefined", "boolean", "number", "bigint", "string",
               "longString", "function", "symbol"}

\* The objects of the heap, and what an element or a key's value can be.
Objects == {"o1", "o2"}
Members == {"number"} \cup Objects

\* Objects the instanceof chain recognises, an invalid Date apart from a valid
\* one, then arrays and every other object.
Builtins == {"Date", "InvalidDate", "Error", "Map", "Set", "URL"}
Containers == {"array", "object"}

Shapes ==
  {[kind |-> k, items |-> s] :
     k \in Containers, s \in UNION {[1..n -> Members] : n \in 0..MaxItems}}
  \cup {[kind |-> k, items |-> <<>>] : k \in Builtins}

\* maxCaptureDepth and maxCollectionSize are numbers the constructor takes
\* unvalidated from the options or the environment.
DepthChoices == -1..MaxDepthChoice
SizeChoices == 1..MaxSizeChoice

\* The names captureValue is called with: `[${i}]` for an array's element i
\* and the key for an object's property, the keys being a, b, c in order.
IndexName(i) == <<"[0]", "[1]", "[2]", "[3]">>[i + 1]
KeyName(i) == <<"a", "b", "c", "d">>[i]
\* `Array(${value.length})`
ArrayText(n) == <<"Array(0)", "Array(1)", "Array(2)", "Array(3)", "Array(4)">>[n + 1]

\* A CapturedVariable; attached tells whether children, arrayElements or
\* neither is set, nodes holds them in order, arrayLength is -1 when unset.
Captured(name, type, value, isNull, isTruncated, attached, nodes, arrayLength) ==
  [name |-> name, type |-> type, value |-> value, isNull |-> isNull,
   isTruncated |-> isTruncated, attached |-> attached, nodes |-> nodes,
   arrayLength |-> arrayLength]

Summary(name, type, value) == Captured(name, type, value, FALSE, FALSE, "none", <<>>, -1)

\* The call did not return: an exception left captureValue.
Raised == [raised |-> TRUE]
IsRaised(c) == "raised" \in DOMAIN c

\* Date.prototype.toISOString returns the text of a valid date and throws
\* RangeError on an invalid one.
toISOString(kind) == IF kind = "InvalidDate" THEN "RangeError" ELSE "2026-01-01T00:00:00.000Z"

\* Whether captureValue descends into a value it holds at this depth.
DescendsAtLimit(depth) == depth <= maxCaptureDepth
Descends(depth) == depth < maxCaptureDepth

\* Whether an array of n elements is within the collection limit.
FitsAlways(n) == TRUE
Fits(n) == n <= maxCollectionSize

\* Object.keys(value) whole, without the slice.
SliceAll(s, n) == s

\* The first n elements of a sequence (slice(0, n)).
Slice(s, n) == [i \in 1..(IF Len(s) < n THEN Len(s) ELSE n) |-> s[i]]

RECURSIVE captureValue(_, _, _)
captureValue(name, value, depth) ==
  CASE value = "null" -> Captured(name, "null", "null", TRUE, FALSE, "none", <<>>, -1)
    [] value = "undefined" -> Summary(name, "undefined", "undefined")
    [] value = "boolean" -> Summary(name, "boolean", "true")
    [] value = "number" -> Summary(name, "number", "42")
    [] value = "bigint" -> Summary(name, "bigint", "7")
    [] value = "string" -> Summary(name, "string", "text")
    [] value = "longString" ->
         Captured(name, "string", "tex", FALSE, TRUE, "none", <<>>, -1)
    [] value = "function" -> Summary(name, "function", "[Function: f]")
    [] value = "symbol" -> Summary(name, "symbol", "Symbol(s)")
    [] OTHER ->
         LET o == heap[value]
             n == Len(o.items)
         IN CASE o.kind = "array" ->
                   LET elements ==
                         IF Descends(depth) /\ Fits(n)
                         THEN [i \in 1..Len(Slice(o.items, maxCollectionSize)) |->
                                 captureValue(IndexName(i - 1), o.items[i], depth + 1)]
                         ELSE <<>>
                   IN IF \E i \in 1..Len(elements) : IsRaised(elements[i])
                      THEN Raised
                      ELSE Captured(name, "array", ArrayText(n), FALSE, FALSE,
                                    IF Descends(depth) /\ Fits(n)
                                    THEN "arrayElements" ELSE "none",
                                    elements, n)
              [] o.kind = "object" ->
                   LET children ==
                         IF Descends(depth)
                         THEN [i \in 1..Len(Slice(o.items, maxCollectionSize)) |->
                                 captureValue(KeyName(i), o.items[i], depth + 1)]
                         ELSE <<>>
                   IN IF \E i \in 1..Len(children) : IsRaised(children[i])
                      THEN Raised
                      ELSE Captured(name, "Object", "{...}", FALSE, FALSE,
                                    IF Len(children) > 0 THEN "children" ELSE "none",
                                    children, -1)
              [] o.kind \in {"Date", "InvalidDate"} ->
                   IF toISOString(o.kind) = "RangeError" THEN Raised
                   ELSE Summary(name, "Date", toISOString(o.kind))
              [] o.kind = "Error" -> Summary(name, "Error", "message")
              [] o.kind = "Map" -> Summary(name, "Map", "Map(0)")
              [] o.kind = "Set" -> Summary(name, "Set", "Set(0)")
              [] o.kind = "URL" -> Summary(name, "URL", "https://example.net/")

\* captureVariables({v: root}): one entry, captured at depth 0.
captureVariables == captureValue("v", root, 0)

\* The variable, the objects it reaches and the two limits, before the call.
\* A primitive reaches no object.
InitSerializer ==
  /\ Constructed(0)
  /\ NotInitialized
  /\ maxCaptureDepth \in DepthChoices
  /\ maxCollectionSize \in SizeChoices
  /\ \/ root \in Primitives /\ heap = [o \in Objects |-> [kind |-> "Map", items |-> <<>>]]
     \/ root = "o1" /\ heap \in [Objects -> Shapes]
  /\ captured = NotRun
  /\ NotParsing
  /\ NotFingerprinting

CaptureVariables ==
  /\ captured = NotRun
  /\ captured' = captureVariables
  /\ UNCHANGED <<heap, root, maxCaptureDepth, maxCollectionSize>>
  /\ UNCHANGED <<vars, agentVars, parserVars, fingerprintVars>>

NextSerializer == CaptureVariables

SpecSerializer == InitSerializer /\ [][NextSerializer]_allVars

\* ================================================================ parser
\* ExceptionHandler.parseStackTrace and parseStackFrame.  A text is the
\* sequence of its pieces: a run of white space, a word, a bracket, a colon,
\* a number.  No two words and no two numbers are adjacent in a line.

\* The most lines a stack has after the lines that fill the frame limit.
MaxTail == 1

\* frames.length >= 50
FrameLimit == 50

WhiteSpace == {" "}
Numbers == {"0", "7", "42"}
\* parseInt(text, 10) of a run of digits
parseInt(text) == CASE text = "0" -> 0 [] text = "7" -> 7 [] text = "42" -> 42

\* A field of a frame that is not set.
Unset == <<"undefined">>

\* The lines the stacks are made of.
Lines == {
  <<"TypeError", ":", " ", "x">>,
  <<" ", "at", " ", "foo", " ", "(", "src", "/", "a.ts", ":", "42", ":", "7", ")">>,
  <<"at", " ", "src", "/", "a.ts", ":", "42", ":", "0">>,
  <<" ", "at", " ", "bar", " ", "(", "native", ")">>,
  <<"at", " ", "baz", " ", "[native code]">>,
  <<"at", " ", "native", " ", "qux">>,
  <<"at", " ", "quux", " ">>,
  <<"at", " ", "foo", " ", "(", "a.ts", ")">>,
  <<"at", " ", " ", "foo", " ", " ", "(", "a.ts", ":", "7", ":", "7", ")", " ">>,
  <<" ", "at", " ">>,
  <<"at", "foo">>,
  <<"foo", " ", "at", " ", "bar">>,
  <<>> }

\* String.prototype.trim
RECURSIVE trimStart(_)
trimStart(s) == IF s # <<>> /\ Head(s) \in WhiteSpace THEN trimStart(Tail(s)) ELSE s
RECURSIVE trimEnd(_)
trimEnd(s) ==
  IF s # <<>> /\ s[Len(s)] \in WhiteSpace THEN trimEnd(SubSeq(s, 1, Len(s) - 1)) ELSE s
trim(s) == trimEnd(trimStart(s))

\* trimmed.startsWith('at ')
startsWithAt(s) == Len(s) >= 2 /\ s[1] = "at" /\ s[2] \in WhiteSpace

\* /^(.+):(\d+):(\d+)$/
MatchesLocation(s) ==
  /\ Len(s) >= 5
  /\ s[Len(s)] \in Numbers /\ s[Len(s) - 1] = ":"
  /\ s[Len(s) - 2] \in Numbers /\ s[Len(s) - 3] = ":"

\* filePath.split(/[/\\]/), last part
getFileName(path) ==
  LET slashes == {i \in 1..Len(path) : path[i] = "/"}
      last == IF slashes = {} THEN 0 ELSE CHOOSE i \in slashes : \A j \in slashes : j <= i
  IN SubSeq(path, last + 1, Len(path))

StackFrame(methodName, filePath, fileName, lineNumber, columnNumber, isNative) ==
  [methodName |-> methodName, filePath |-> filePath, fileName |-> fileName,
   lineNumber |-> lineNumber, columnNumber |-> columnNumber, isNative |-> isNative]

Located(methodName, s) ==
  StackFrame(methodName, SubSeq(s, 1, Len(s) - 4), getFileName(SubSeq(s, 1, Len(s) - 4)),
             parseInt(s[Len(s) - 2]), parseInt(s[Len(s)]), FALSE)

parseLocation(methodName, location) ==
  IF location = <<"native">> \/ \E i \in 1..Len(location) : location[i] = "[native code]"
  THEN StackFrame(methodName, Unset, Unset, -1, -1, TRUE)
  ELSE IF MatchesLocation(location) THEN Located(methodName, location)
  ELSE StackFrame(methodName, location, Unset, -1, -1, FALSE)

\* /^(.+?)\s+\((.+)\)$/ : where the white space after the shortest method
\* name begins and where the bracket is, or no match.
FuncMatches(s) ==
  {m \in (2..Len(s)) \X (3..Len(s)) :
     /\ m[1] < m[2]
     /\ \A i \in m[1]..(m[2] - 1) : s[i] \in WhiteSpace
     /\ s[m[2]] = "("
     /\ m[2] + 1 <= Len(s) - 1
     /\ s[Len(s)] = ")"}
FuncMatch(s) == CHOOSE m \in FuncMatches(s) : \A o \in FuncMatches(s) : m[1] <= o[1]

\* content.replace(' [native code]', '')
RECURSIVE withoutNativeCode(_)
withoutNativeCode(s) ==
  IF Len(s) < 2 THEN s
  ELSE IF s[1] = " " /\ s[2] = "[native code]" THEN SubSeq(s, 3, Len(s))
  ELSE <<Head(s)>> \o withoutNativeCode(Tail(s))

\* No frame: parseStackFrame returned null.
NoFrame == [null |-> TRUE]

parseStackFrame(line) ==
  LET trimmed == trim(line)
      content == SubSeq(trimmed, 3, Len(trimmed))
  IN IF ~startsWithAt(trimmed) THEN NoFrame
     ELSE IF FuncMatches(content) # {}
     THEN parseLocation(SubSeq(content, 1, FuncMatch(content)[1] - 1),
                        SubSeq(content, FuncMatch(content)[2] + 1, Len(content) - 1))
     ELSE IF MatchesLocation(content) THEN Located(<<"<anonymous>">>, content)
     ELSE IF (\E i \in 1..Len(content) : content[i] = "[native code]")
             \/ (content # <<>> /\ content[1] = "native")
     THEN StackFrame(withoutNativeCode(content), Unset, Unset, -1, -1, TRUE)
     ELSE StackFrame(content, Unset, Unset, -1, -1, FALSE)

\* frames.length >= 50, and the same one frame late
FullOneLate(f) == Len(f) > FrameLimit
Full(f) == Len(f) >= FrameLimit

\* The loop of parseStackTrace over the lines left, f being the frames so far.
RECURSIVE parseLines(_, _)
parseLines(lines, f) ==
  IF lines = <<>> THEN f
  ELSE LET frame == parseStackFrame(Head(lines))
           g == IF frame # NoFrame THEN Append(f, frame) ELSE f
       IN IF Full(g) THEN g ELSE parseLines(Tail(lines), g)

\* stack.split('\n').slice(1), then the loop
parseStackTrace(lines) == parseLines(Tail(lines), <<>>)

\* n times the same line
Repeat(line, n) == [i \in 1..n |-> line]

\* How many times a stack repeats a line: not at all, or so as to end near
\* the frame limit.
Repeats == {0, FrameLimit - 2, FrameLimit - 1, FrameLimit}

\* The first line of a stack, the line a stack repeats and the lines after
\* them: the error's name and message, a frame, a line that is no frame,
\* nothing.
Named == <<"TypeError", ":", " ", "x">>
Called == <<" ", "at", " ", "foo", " ", "(", "src", "/", "a.ts", ":", "42", ":", "7", ")">>
Plain == <<"at", " ", "quux", " ">>
Other == <<"foo", " ", "at", " ", "bar">>

\* The stack of the error: a first line, perhaps one more of any shape, a
\* line repeated, and up to MaxTail lines after them.  error.stack || '' is
\* one empty line when the stack is not set.
InitParser ==
  /\ Constructed(0)
  /\ NotInitialized
  /\ NotCapturing
  /\ NotFingerprinting
  /\ \E first \in {Named, Called, <<>>}, second \in {<<l>> : l \in Lines} \cup {<<>>},
        line \in {Called, Other}, n \in Repeats,
        tail \in UNION {[1..k -> {Called, Plain, Other}] : k \in 0..MaxTail} :
       stack = <<first>> \o second \o Repeat(line, n) \o tail
  /\ frames = NotRun

ParseStackTrace ==
  /\ frames = NotRun
  /\ frames' = [returned |-> parseStackTrace(stack)]
  /\ UNCHANGED <<stack, vars, agentVars, serializerVars, fingerprintVars>>

NextParser == ParseStackTrace

SpecParser == InitParser /\ [][NextParser]_allVars

\* =========================================================== fingerprint
\* ExceptionHandler.calculateFingerprint.

\* The most frames the first error has.
MaxTrace == 6

\* if (added >= 5) break
FingerprintFrames == 5

\* Frames as the parser builds them: a call with its location, the same call
\* from another file and column, a native call, a call without a location,
\* the same call located at line 0.
FooAt42 == parseStackFrame(Called)
FooElsewhere ==
  StackFrame(<<"foo">>, <<"lib", "/", "b.ts">>, <<"b.ts">>, 42, 0, FALSE)
BarNative == parseStackFrame(<<" ", "at", " ", "bar", " ", "(", "native", ")">>)
Quux == parseStackFrame(Plain)
QuuxAt0 == parseStackFrame(<<"at", " ", "quux", " ", "(", "a.ts", ":", "0", ":", "7", ")">>)
Frames == {FooAt42, FooElsewhere, BarNative, Quux, QuuxAt0}

\* String(n) of a line number
numberText(n) == CASE n = 0 -> "0" [] n = 7 -> "7" [] n = 42 -> "42"

\* frame.lineNumber || 0
lineNumberOr0(frame) == IF frame.lineNumber = -1 THEN 0 ELSE frame.lineNumber

\* `${frame.methodName}:${frame.lineNumber || 0}`
Part(frame) == frame.methodName \o <<":", numberText(lineNumberOr0(frame))>>

\* added >= 5, and the same one frame late
EnoughOneLate(added) == added > FingerprintFrames
Enough(added) == added >= FingerprintFrames

\* The loop over the frames, parts being joined with ':' as they are pushed.
RECURSIVE joinParts(_, _, _)
joinParts(text, stackTrace, added) ==
  IF stackTrace = <<>> \/ Enough(added) THEN text
  ELSE IF Head(stackTrace).isNative THEN joinParts(text, Tail(stackTrace), added)
  ELSE joinParts(text \o <<":">> \o Part(Head(stackTrace)), Tail(stackTrace), added + 1)

\* createHash('sha256') ... digest('hex').substring(0, 16): the first 16 hex
\* digits of the digest of the text, texts being told apart by their digests.
sha256Hex16(text) == [sha256 |-> text, digits |-> 16]

calculateFingerprint(error) ==
  sha256Hex16(joinParts(<<IF error.name = "" THEN "Error" ELSE error.name>>,
                        error.stackTrace, 0))

Error(name, message, stackTrace) ==
  [name |-> name, message |-> message, stackTrace |-> stackTrace]

\* The stacks one edit away from a stack: a frame replaced, put in or taken
\* out, and the stack itself.
Variants(s) ==
  {s}
  \cup {[s EXCEPT ![i] = f] : i \in 1..Len(s), f \in Frames}
  \cup {SubSeq(s, 1, i) \o <<f>> \o SubSeq(s, i + 1, Len(s)) : i \in 0..Len(s), f \in Frames}
  \cup {SubSeq(s, 1, i - 1) \o SubSeq(s, i + 1, Len(s)) : i \in 1..Len(s)}

\* Two errors: the second has another message, a stack one edit away from
\* the first one's and the same name, or no name where the first is named
\* Error, or another name.
InitFingerprint ==
  /\ Constructed(0)
  /\ NotInitialized
  /\ NotCapturing
  /\ NotParsing
  /\ \E s \in UNION {[1..n -> {FooAt42, BarNative}] : n \in 0..MaxTrace} :
       \E v \in Variants(s),
          names \in {<<"TypeError", "TypeError">>, <<"Error", "">>, <<"TypeError", "Error">>} :
         errors = <<Error(names[1], "x is null", s), Error(names[2], "y is undefined", v)>>
  /\ fingerprints = NotRun

CalculateFingerprints ==
  /\ fingerprints = NotRun
  /\ fingerprints' = [returned |-> <<calculateFingerprint(errors[1]),
                                     calculateFingerprint(errors[2])>>]
  /\ UNCHANGED <<errors, vars, agentVars, serializerVars, parserVars>>

NextFingerprint == CalculateFingerprints

SpecFingerprint == InitFingerprint /\ [][NextFingerprint]_allVars

\* ================================================================ claims
\* The states of section 4.5, read off the fields.
READY == ws = "OPEN" /\ authenticated
AUTHENTICATING == ws = "OPEN" /\ ~authenticated
CONNECTING == ws = "CONNECTING"
DISCONNECTED == ws \in {NULL, "CLOSED"}

\* A socket object was created by this step.
NewSocket == LiveSockets(ws', stale') > LiveSockets(ws, stale)

\* C1: once disconnect() has returned, and until connect() is called, no step
\* schedules a reconnect and no step opens a socket, whichever timer or
\* socket event it is (the close event of the socket disconnect() closed
\* included).
C1_NoReconnectAfterDisconnect ==
  [][(torn /\ torn') =>
       (Pending(reconnectTimer', lostTimers') <= Pending(reconnectTimer, lostTimers)
        /\ ~NewSocket)]_vars

\* C2: the pending-message queue never holds more than 1000 messages.
C2_QueueAtMost1000 == Count(messageQueue) <= 1000

\* A 1001st message was passed to send() and found the queue full.
C2_Witness == Count(messageQueue) = 1000 /\ nextId > 1000 /\ sendsLeft = 0

\* C3: send(m) while not READY and with 1000 messages queued leaves the queue
\* the same sequence, transmits nothing and raises nothing.
C3_FullQueueDropsNewest ==
  [][(Send /\ ~READY /\ Count(messageQueue) = 1000)
       => /\ Unfold(messageQueue') = Unfold(messageQueue)
          /\ wire' = wire
          /\ ~threw']_vars

\* send() has just dropped message 1001: the queue still holds 1..1000.
C3_Witness ==
  /\ op = "send" /\ ~READY /\ nextId = 1001
  /\ messageQueue = FirstMessages(1000) /\ wire = <<>>

\* C4: a 'registered' frame makes the transport transmit the queued messages
\* oldest first and empty the queue when the held socket is open, and change
\* neither the queue nor the wire when it is not.
C4_AckFlushesOldestFirst ==
  [][\A held \in BOOLEAN, st \in StaleStates :
       SocketMessage(held, st, "registered") =>
         IF ws = "OPEN"
         THEN /\ messageQueue' = <<>>
              /\ IF messageQueue = <<>> THEN wire' = wire
                 ELSE Unfold(wire') = Unfold(wire) \o Unfold(messageQueue)
         ELSE /\ wire' = wire
              /\ messageQueue' = messageQueue]_vars

\* The 1000 queued messages were flushed, in order, after the acknowledgement
\* arrived on the held socket.
C4_Witness ==
  /\ READY /\ heldAck /\ messageQueue = <<>>
  /\ wire = FirstMessages(1000) /\ nextId = 1000

\* C5: send(m) appends m to the wire, and leaves the queue alone, exactly when
\* the transport is READY; otherwise the wire is unchanged and m is appended to
\* the queue unless the queue holds 1000 messages.
C5_SendTransmitsIffReady ==
  [][Send =>
       IF READY
       THEN /\ Unfold(wire') = Append(Unfold(wire), nextId')
            /\ messageQueue' = messageQueue
       ELSE /\ wire' = wire
            /\ Unfold(messageQueue') =
                 IF Count(messageQueue) < 1000
                 THEN Append(Unfold(messageQueue), nextId')
                 ELSE Unfold(messageQueue)]_vars

\* send() has just transmitted its message at once, after the queue had been
\* flushed on the acknowledgement.
C5_Witness ==
  /\ op = "send" /\ READY /\ heldAck /\ messageQueue = <<>>
  /\ wire = FirstMessages(nextId) /\ nextId = 1001

\* C6: whenever the transport is READY, a register message was sent on the
\* socket it holds and a registration acknowledgement was received on that
\* same socket.
C6_ReadyOnlyAfterAckOnHeldSocket ==
  /\ [](READY => heldReg /\ heldAck)
  /\ [][(READY' /\ ~READY) => AUTHENTICATING]_vars

\* A reconnect was scheduled by this step.
Scheduled ==
  /\ reconnectTimer' = "PENDING"
  /\ Pending(reconnectTimer', lostTimers') = Pending(reconnectTimer, lostTimers) + 1
  /\ reconnectAttempts' = reconnectAttempts + 1
  /\ delay' > 0

\* C7: when a socket closes or fails, the authenticated flag is cleared and, if
\* the attempt counter is below 10, a reconnect is scheduled; when it is the
\* held socket the transport is DISCONNECTED afterwards.  The same holds for
\* the close event and for the error event.
C7_ClosureDisconnectsAndSchedules ==
  [][\A held \in BOOLEAN, st \in StaleStates :
       (SocketClose(held, st) \/ SocketFail(held, st)) =>
         /\ ~authenticated'
         /\ (reconnectAttempts < 10) => Scheduled
         /\ held => DISCONNECTED']_vars

\* The held socket was open and authenticated, failed, and a first reconnect
\* is pending.
C7_Witness ==
  /\ op = "error" /\ ws = "CLOSED" /\ ~authenticated /\ heldAck
  /\ reconnectTimer = "PENDING" /\ reconnectAttempts = 1 /\ delay = 1000

DelayTable == <<1000, 2000, 4000, 8000, 16000, 30000, 30000, 30000, 30000, 30000>>

\* C8: a scheduling made when the attempt counter is n, n in 0..9, uses the
\* delay 1000, 2000, 4000, 8000, 16000 for n = 0..4 and 30000 for n = 5..9, and
\* adds exactly one to the counter.
C8_BackoffDelays ==
  [][(delay' # 0) =>
       /\ reconnectAttempts \in 0..9
       /\ delay' = DelayTable[reconnectAttempts + 1]
       /\ reconnectAttempts' = reconnectAttempts + 1]_vars

\* The tenth consecutive scheduling has just been made, with the capped delay.
C8_Witness ==
  /\ delay = 30000 /\ reconnectAttempts = 10 /\ reconnectTimer = "PENDING"

\* C9: the attempt counter never exceeds 10; a closure at counter 10 schedules
\* nothing; and once such a closure has happened no step other than an explicit
\* connect() opens a socket.
C9_GivesUpForGood ==
  /\ [](reconnectAttempts <= 10)
  /\ [][\A held \in BOOLEAN, st \in StaleStates :
          ((SocketClose(held, st) \/ SocketFail(held, st)) /\ reconnectAttempts = 10)
            => /\ delay' = 0
               /\ reconnectAttempts' = 10
               /\ Pending(reconnectTimer', lostTimers') = Pending(reconnectTimer, lostTimers)]_vars
  /\ [][(gaveUp /\ op' # "connect") => ~NewSocket]_vars

\* The frame of a connect() that returns at once.
ConnectNoOp ==
  UNCHANGED <<ws, stale, authenticated, messageQueue, reconnectAttempts,
              wire, heldReg, heldAck>>

\* C10 as stated: connect() with an open socket held changes nothing, and in
\* every other state it opens a socket.
C10_ConnectOpensUnlessOpen ==
  [][Connect =>
       IF ws = "OPEN"
       THEN ConnectNoOp /\ UNCHANGED <<reconnectTimer, lostTimers>>
       ELSE NewSocket /\ ws' = "CONNECTING"]_vars

\* C10, amended: connect() with an open socket held changes nothing; in every
\* other state it opens a socket, unless constructing the socket throws, in
\* which case no socket is opened, the held socket stays and a reconnect is
\* scheduled if the attempt counter is below 10.  A timer's connect() behaves
\* the same, the fired timer apart.
C10_ConnectOpensUnlessOpenOrThrows ==
  /\ [][Connect =>
          IF ws = "OPEN"
          THEN ConnectNoOp /\ UNCHANGED <<reconnectTimer, lostTimers>>
          ELSE IF urlOk
          THEN NewSocket /\ ws' = "CONNECTING"
          ELSE /\ ~NewSocket /\ ws' = ws
               /\ (reconnectAttempts < 10) => Scheduled]_vars
  /\ [][\A held \in BOOLEAN :
          TimerFire(held) =>
            IF ws = "OPEN" THEN ConnectNoOp
            ELSE IF urlOk THEN NewSocket /\ ws' = "CONNECTING"
            ELSE ~NewSocket /\ ws' = ws]_vars

\* connect() has just returned at once: the transport is still READY on the
\* socket that was acknowledged.
C10_Witness ==
  /\ op = "connect" /\ READY /\ heldReg /\ heldAck

\* C11: when a socket opens the attempt counter becomes 0, the register message
\* is transmitted (the handler does not fail) and the transport is then
\* AUTHENTICATING, not READY; a socket the transport holds open has had its
\* registration sent.
C11_OpenRegistersFirst ==
  /\ [](ws = "OPEN" => heldReg)
  /\ [][\A held \in BOOLEAN :
          SocketOpen(held) =>
            /\ reconnectAttempts' = 0
            /\ ~threw'
            /\ heldReg'
            /\ AUTHENTICATING']_vars

\* C12: disconnect() leaves no timer held, no socket held and the flag false,
\* so that a second call in a row closes no socket and changes nothing; no
\* call changes the queue, transmits or raises.
C12_DisconnectIdempotent ==
  /\ [](op = "disconnect" =>
          /\ reconnectTimer = NULL
          /\ ws = NULL
          /\ ~authenticated
          /\ ~threw
          /\ CloseCall(ws, stale) = stale)
  /\ [][Disconnect => messageQueue' = messageQueue /\ wire' = wire]_vars

\* disconnect() has returned after closing an authenticated socket, with
\* messages still queued.
C12_Witness ==
  /\ op = "disconnect" /\ stale["CLOSING"] = 1 /\ heldAck = FALSE
  /\ messageQueue # <<>> /\ wire # <<>> /\ ws = NULL

\* C13: a received frame that is an error notice, has an unknown type or is
\* not valid JSON changes neither the sockets, the flag, the queue, the
\* attempt counter nor the timers, transmits nothing and raises nothing.
C13_OtherInboundChangesNothing ==
  [][\A held \in BOOLEAN, st \in StaleStates, kind \in Inbound \ {"registered"} :
       SocketMessage(held, st, kind) =>
         /\ UNCHANGED <<ws, stale, authenticated, messageQueue, reconnectAttempts,
                        reconnectTimer, lostTimers, wire, heldReg, heldAck>>
         /\ ~threw']_vars

\* A frame has just been handled on the open, registered but not yet
\* acknowledged socket, with a message waiting in the queue.
C13_Witness ==
  /\ op = "message" /\ AUTHENTICATING /\ heldReg /\ ~heldAck
  /\ messageQueue # <<>> /\ wire = <<>> /\ reconnectTimer = NULL

MergedByKey(ctx) ==
  /\ DOMAIN context' = DOMAIN config.customContext \cup DOMAIN ctx \cup DOMAIN config.user
  /\ \A k \in DOMAIN context' :
       context'[k] = IF k \in DOMAIN config.user THEN config.user[k]
                     ELSE IF k \in DOMAIN ctx THEN ctx[k]
                     ELSE config.customContext[k]

\* The same with the current user object kept whole under the key user.
MergedUnderUser(ctx) ==
  /\ DOMAIN context' = DOMAIN config.customContext \cup DOMAIN ctx \cup {"user"}
  /\ \A k \in DOMAIN context' :
       context'[k] = IF k = "user" THEN Nested(config.user)
                     ELSE IF k \in DOMAIN ctx THEN ctx[k]
                     ELSE config.customContext[k]

\* C15 as stated: the context of a report carries, for every key, the value of
\* the highest-precedence source that defines it, user over call-site over
\* ambient.
C15_ContextMergedByKey ==
  /\ [][(op' = "capture" /\ handed' > 0) =>
          \A ctx \in ContextsOf("call") :
            context' = createCapture(config, ctx) => MergedByKey(ctx)]_allVars
  /\ [][(op' = "event" /\ handed' > 0) =>
          \A origin \in Origins :
            context' = createCapture(config, [k \in {"origin"} |-> origin]) =>
              MergedByKey([k \in {"origin"} |-> origin])]_allVars

\* C15, amended: the context of a report carries the current user object
\* whole under the key user, whatever the other sources define there, and for
\* every other key the call-site value if the call site defines it, else the
\* ambient one. On the automatic path the call-site context is the origin tag.
\* The call-site context of a step is any one createCapture builds the
\* reported context from.
C15_ContextMergedUnderUser ==
  /\ [][(op' = "capture" /\ handed' > 0) =>
          \A ctx \in ContextsOf("call") :
            context' = createCapture(config, ctx) => MergedUnderUser(ctx)]_allVars
  /\ [][(op' = "event" /\ handed' > 0) =>
          \A origin \in Origins :
            context' = createCapture(config, [k \in {"origin"} |-> origin]) =>
              MergedUnderUser([k \in {"origin"} |-> origin])]_allVars

\* A report was built where all three sources collide: the ambient and the
\* call-site context both define id and user, and a user with an id is set.
C15_Witness ==
  /\ op = "capture" /\ handed = 1 /\ initialized
  /\ config.customContext = [k \in Keys |-> "ambient"]
  /\ config.user = [k \in {"id"} |-> "user"]
  /\ context = [k \in Keys |-> IF k = "user" THEN "{id}"
                               ELSE IF k = "id" THEN "call" ELSE "ambient"]

\* C16: install() on a handler that is installed registers no listener and
\* changes nothing; a handler on which install() was called any number of
\* times in a row has one listener pair, and one uncaught error or unhandled
\* rejection then produces exactly one report, tagged with its origin.
C16_InstallIdempotent ==
  /\ [][(op' = "install" /\ exceptionHandler.installed) =>
          UNCHANGED <<listeners, strays, exceptionHandler, config, initialized,
                      transportVars>>]_allVars
  /\ []((installCalls >= 1 /\ ~exceptionHandler.cleared) =>
          (exceptionHandler.installed /\ listeners = 1))
  /\ [][(/\ op' = "event"
         /\ installCalls >= 1
         /\ ~exceptionHandler.cleared
         /\ strays = <<>>
         /\ config.samplingRate >= 100) =>
          /\ handed' = 1
          /\ strayed' = 0
          /\ \A origin \in Origins, draws \in [1..(listeners + Len(strays)) -> Draws] :
               UncaughtEvent(origin, draws) => context'["origin"] = origin]_allVars

\* After init() and two further install() calls in a row, one uncaught error
\* produced one report tagged 'error'.
C16_Witness ==
  /\ op = "event" /\ installCalls = 3 /\ listeners = 1 /\ strays = <<>>
  /\ handed = 1 /\ strayed = 0 /\ context["origin"] = "error"

\* C17: captureException called before init(), after an init() rejected for a
\* missing API key, or after shutdown() builds no report, passes nothing to
\* any connection, changes no state and raises nothing; these are the states
\* in which the agent is not initialized.
C17_CaptureWhenNotInitialized ==
  /\ [](initialized <=> (config # NullObject /\ config.apiKey))
  /\ [][(op' = "capture" /\ (config = NullObject \/ ~config.apiKey)) =>
          /\ handed' = 0
          /\ strayed' = 0
          /\ context' = NoContext
          /\ ~threw'
          /\ UNCHANGED <<transportVars, initialized, config, exceptionHandler,
                         listeners, strays, installCalls>>]_allVars

\* captureException has just returned after shutdown(); the report captured
\* before the shutdown is still in the queue of the connection.
C17_Witness ==
  /\ op = "capture" /\ ~initialized /\ config = NullObject
  /\ Len(strays) = 1 /\ Count(messageQueue) = 1 /\ handed = 0

\* ---------------------------------------------------------------- C18
\* The objects a set of objects holds as elements or as values of keys.
RefsOf(S) == {m \in Objects : \E o \in S : \E i \in 1..Len(heap[o].items) : heap[o].items[i] = m}

RECURSIVE ReachedFrom(_)
ReachedFrom(S) == IF RefsOf(S) \subseteq S THEN S ELSE ReachedFrom(S \cup RefsOf(S))

\* The objects the captured variable reaches, itself included.
Reached == IF root \in Objects THEN ReachedFrom({root}) ELSE {}

\* The variable reaches an object that reaches itself.
Cyclic == \E o \in Reached : o \in ReachedFrom(RefsOf({o}))

\* Some reached object is an invalid Date.
ReachesInvalidDate == \E o \in Reached : heap[o].kind = "InvalidDate"

RECURSIVE Height(_)
Height(c) ==
  IF Len(c.nodes) = 0 THEN 0
  ELSE 1 + (CHOOSE h \in {Height(c.nodes[i]) : i \in 1..Len(c.nodes)} :
              \A i \in 1..Len(c.nodes) : Height(c.nodes[i]) <= h)

RECURSIVE Size(_)
RECURSIVE SizeOfAll(_)
SizeOfAll(s) == IF s = <<>> THEN 0 ELSE Size(Head(s)) + SizeOfAll(Tail(s))
Size(c) == 1 + SizeOfAll(c.nodes)

\* 1 + b + b^2 + ... + b^d
RECURSIVE Geometric(_, _)
Geometric(b, d) == IF d <= 0 THEN 1 ELSE 1 + b * Geometric(b, d - 1)

\* C18: for every maxCaptureDepth >= 0, captureVariables on a variable that
\* reaches a reference cycle comes back, and what it hands back when no
\* exception leaves it is a finite tree: no taller than maxCaptureDepth and of
\* at most 1 + s + ... + s^maxCaptureDepth nodes, s being maxCollectionSize.
C18_CyclicInputTerminates ==
  (Cyclic /\ maxCaptureDepth >= 0) =>
    /\ captured = NotRun => ENABLED CaptureVariables
    /\ (captured # NotRun /\ ~IsRaised(captured)) =>
         /\ Height(captured) <= maxCaptureDepth
         /\ Size(captured) <= Geometric(maxCollectionSize, maxCaptureDepth)

\* An object that holds itself was captured down to the depth limit, the
\* limit being 2 or more: the same object appears at three depths at least.
C18_Witness ==
  /\ root = "o1"
  /\ heap["o1"].kind = "object"
  /\ \E i \in 1..Len(heap["o1"].items) : heap["o1"].items[i] = "o1"
  /\ maxCaptureDepth >= 2
  /\ captured # NotRun
  /\ ~IsRaised(captured)
  /\ Height(captured) = maxCaptureDepth

\* ---------------------------------------------------------------- C19
\* C19: the serializer never raises, whatever the value of the variable: a
\* primitive, an array, a Date (an invalid one included), an Error, a Map, a
\* Set, a URL, a plain or a cyclic object; captureVariables always hands back
\* a captured variable.
C19_NeverRaises == ~IsRaised(captured)

\* ---------------------------------------------------------------- C20
\* The depth of a node is its distance from the captured variable, which is
\* at depth 0 (captureVariables' default), each child or array element being
\* one deeper than its parent.  From depth d down: no node is deeper than
\* maxCaptureDepth, and a node at exactly maxCaptureDepth has its summary
\* value and neither children nor arrayElements.
RECURSIVE DepthsWithinLimit(_, _)
DepthsWithinLimit(c, d) ==
  /\ d <= maxCaptureDepth
  /\ c.value # ""
  /\ d = maxCaptureDepth => c.attached = "none" /\ c.nodes = <<>>
  /\ \A i \in 1..Len(c.nodes) : DepthsWithinLimit(c.nodes[i], d + 1)

\* captureVariables handed back a captured variable.
Returned == captured # NotRun /\ ~IsRaised(captured)

RECURSIVE ArraysCaptured(_, _, _)
ArraysCaptured(c, value, d) ==
  IF value \in Objects /\ heap[value].kind = "array"
  THEN LET items == heap[value].items
       IN /\ c.type = "array"
          /\ c.arrayLength = Len(items)
          /\ c.attached = IF d < maxCaptureDepth /\ Len(items) <= maxCollectionSize
                          THEN "arrayElements" ELSE "none"
          /\ Len(c.nodes) = IF c.attached = "arrayElements" THEN Len(items) ELSE 0
          /\ \A i \in 1..Len(c.nodes) :
               /\ c.nodes[i].name = IndexName(i - 1)
               /\ ArraysCaptured(c.nodes[i], items[i], d + 1)
  ELSE IF value \in Objects /\ heap[value].kind = "object"
  THEN LET items == heap[value].items
       IN /\ c.attached \in {"children", "none"}
          /\ c.attached = "children" <=> Len(c.nodes) > 0
          /\ Len(c.nodes) <= maxCollectionSize
          /\ Len(c.nodes) <= Len(items)
          /\ \A i \in 1..Len(c.nodes) : ArraysCaptured(c.nodes[i], items[i], d + 1)
  ELSE c.attached = "none" /\ c.nodes = <<>>

Marked(line) ==
  \E i \in 1..Len(line) :
    /\ \A j \in 1..(i - 1) : line[j] \in WhiteSpace
    /\ line[i] = "at"
    /\ i + 1 <= Len(line) /\ line[i + 1] \in WhiteSpace
    /\ \E j \in (i + 2)..Len(line) : line[j] \notin WhiteSpace

\* The lines of the stack after the first that have the marker, in order.
MarkedLines == SelectSeq(Tail(stack), Marked)

\* C22: parseStackTrace returns for every stack, with at most 50 frames; the
\* first line gives no frame, every later line with the frame marker gives
\* exactly one and every other line none, the frames are in the order of
\* their lines, and the lines after the one of the 50th frame give none.
C22_StackParsingTotal ==
  frames # NotRun =>
    LET marked == MarkedLines
    IN /\ Len(frames.returned) <= FrameLimit
       /\ Len(frames.returned) = Min(Len(marked), FrameLimit)
       /\ \A i \in 1..Len(frames.returned) :
            /\ frames.returned[i] # NoFrame
            /\ frames.returned[i] = parseStackFrame(marked[i])

\* A stack whose first line looks like a frame and which has more than 50
\* lines with the marker after it, among lines without: 50 frames came back.
C22_Witness ==
  /\ frames # NotRun
  /\ Marked(Head(stack))
  /\ Len(MarkedLines) > FrameLimit
  /\ Len(MarkedLines) < Len(stack) - 1
  /\ Len(frames.returned) = FrameLimit

\* ---------------------------------------------------------------- C23
\* The exception type of a report (error.name || 'Error' in createCapture).
ExceptionType(error) == IF error.name = "" THEN "Error" ELSE error.name

\* The frames that are not native, in order.
NonNative(stackTrace) == SelectSeq(stackTrace, LAMBDA f : ~f.isNative)

\* What the fingerprint may depend on: the exception type and the method
\* names and line numbers (0 for none) of the first five frames that are not
\* native.
GroupingKey(error) ==
  LET own == NonNative(error.stackTrace)
  IN <<ExceptionType(error),
       [i \in 1..Min(Len(own), 5) |->
          <<own[i].methodName, IF own[i].lineNumber = -1 THEN 0 ELSE own[i].lineNumber>>]>>

\* C23: two errors with the same exception type and the same method names
\* and line numbers (0 for none) in their first five non-native frames have
\* the same fingerprint, whatever their messages, their later frames, their
\* native frames, their file paths and their columns.
C23_FingerprintByCallSite ==
  fingerprints # NotRun =>
    (GroupingKey(errors[1]) = GroupingKey(errors[2]) =>
       fingerprints.returned[1] = fingerprints.returned[2])

\* The two errors have the same type and first five non-native frames;
\* the first has a sixth that the second has not (or has another one
\* there), and their messages differ.
C23_Witness ==
  /\ fingerprints # NotRun
  /\ GroupingKey(errors[1]) = GroupingKey(errors[2])
  /\ errors[1].message # errors[2].message
  /\ Len(NonNative(errors[1].stackTrace)) > 5
  /\ NonNative(errors[1].stackTrace) # NonNative(errors[2].stackTrace)
  /\ fingerprints.returned[1] = fingerprints.returned[2]

\* ---------------------------------------------------------------- C24
\* Sockets with handlers attached that are connecting or open, held or not.
ConnectingOrOpen ==
  (IF ws \in {"CONNECTING", "OPEN"} THEN 1 ELSE 0) + stale["CONNECTING"] + stale["OPEN"]

\* C24: at every moment at most one reconnect timer is pending, and it is
\* the one reconnectTimer refers to, which disconnect() cancels; and at most
\* one socket with handlers attached is connecting or open.
C24_OneTimerOneSocket ==
  /\ Pending(reconnectTimer, lostTimers) <= 1
  /\ lostTimers = 0
  /\ ConnectingOrOpen <= 1

\* ---------------------------------------------------------------- C25
\* The messages of the runs are in the order of their numbers, none twice.
InSendOrder(runs) ==
  /\ \A i \in 1..Len(runs) : runs[i].lo <= runs[i].hi
  /\ \A i \in 1..(Len(runs) - 1) : runs[i].hi < runs[i + 1].lo

\* C25: the exception messages are on the wire in the order in which they
\* were passed to send, each at most once, and no message on the wire was
\* passed to send after a message that is still queued.
C25_WireInSendOrder ==
  /\ InSendOrder(wire)
  /\ \A i \in 1..Len(wire), j \in 1..Len(messageQueue) : wire[i].hi < messageQueue[j].lo

\* ---------------------------------------------------------------- C26
\* The handler mod.ts holds has been uninstalled and not installed again, or
\* the agent was shut down (or never initialised).
Uninstalled == exceptionHandler = NullObject \/ ~exceptionHandler.installed

\* C26: whatever install() and uninstall() calls were made, at most one
\* listener pair is active on globalThis, so one uncaught error or unhandled
\* rejection produces at most one report; and after uninstall() or shutdown()
\* such an event produces no report and hands nothing to any connection.
C26_OnePairNoneAfterUninstall ==
  /\ [](listeners + Len(strays) <= 1)
  /\ [][op' = "event" => handed' + strayed' <= 1]_allVars
  /\ [][(op' = "event" /\ Uninstalled) => (handed' = 0 /\ strayed' = 0)]_allVars

\* ---------------------------------------------------------------- C27
\* A backend that never acknowledges a registration: the application calls
\* connect() once and then leaves the connection alone; every socket fails
\* while connecting or opens, receives at most frames other than 'registered',
\* and is closed.
NextNoAck ==
  \/ (op = "new" /\ Connect)
  \/ Send
  \/ TimerFire(TRUE)
  \/ SocketOpen(TRUE)
  \/ \E kind \in Inbound \ {"registered"} : SocketMessage(TRUE, "OPEN", kind)
  \/ SocketClose(TRUE, "OPEN")
  \/ \E st \in {"CONNECTING", "OPEN"} : SocketFail(TRUE, st)

\* The held socket's connection ends, by a close or by a failure.
HeldSocketEnds ==
  SocketClose(TRUE, "OPEN") \/ \E st \in {"CONNECTING", "OPEN"} : SocketFail(TRUE, st)

\* The event loop runs every timer that is due, and every connection is
\* closed by the backend.
SpecNoAck ==
  /\ Init
  /\ [][NextNoAck]_vars
  /\ WF_vars(TimerFire(TRUE))
  /\ WF_vars(HeldSocketEnds)

\* No reconnect is pending and no socket is connecting or open.
Quiet == Pending(reconnectTimer, lostTimers) = 0 /\ ConnectingOrOpen = 0

\* C27: with a backend that never acknowledges, the connection eventually
\* stops reconnecting for good; and once a reconnect has been scheduled with
\* the n-th delay of the back-off (the attempt counter is then n), no later
\* reconnect is scheduled with a smaller delay.
C27_GivesUpWithoutAck ==
  /\ <>[]Quiet
  /\ \A n \in 1..maxReconnectAttempts :
       [](reconnectAttempts = n => [](delay # 0 => delay >= DelayTable[n]))

\* ---------------------------------------------------------------- C28
\* C28: a message leaves the queue only in a flush, which transmits it: the
\* open, close and error events of a socket, a reconnect timer firing,
\* connect(), disconnect() and a received frame other than 'registered' leave
\* the queue as it is; a received frame that changes the queue empties it
\* onto the wire in queue order; send() removes nothing from the queue; and
\* outside send() every message is still either queued or on the wire.
C28_QueueLeavesOnlyByFlush ==
  [][/\ (op' \in {"connect", "disconnect", "timer", "open", "close", "error"}) =>
          UNCHANGED messageQueue
     /\ \A held \in BOOLEAN, st \in StaleStates, kind \in Inbound \ {"registered"} :
          SocketMessage(held, st, kind) => UNCHANGED messageQueue
     /\ (op' = "message" /\ messageQueue' # messageQueue) =>
          (messageQueue' = <<>> /\ wire' = Join(wire, messageQueue))
     /\ (op' = "send") => (messageQueue' \in {messageQueue, Push(messageQueue, nextId')})
     /\ (op' # "send") =>
          (Count(wire') + Count(messageQueue') = Count(wire) + Count(messageQueue))]_vars

\* A socket has closed and a reconnect is pending while the queue is full and
\* nothing has been transmitted yet.
C28_Witness ==
  /\ op = "close" /\ reconnectTimer = "PENDING" /\ ws = "CLOSED"
  /\ messageQueue = FirstMessages(QueueLimit) /\ wire = <<>>

====
